---- MODULE Spec2Model ----
(***************************************************************************)
(* A model of the maze game: the grid and its dead-end flags, the maze     *)
(* generator, the traversal state machine (attemptMove / undo / reset /    *)
(* completion) of maze.js, and the two search workers (astar-worker.js,    *)
(* bfs-worker.js).                                                         *)
(***************************************************************************)
EXTENDS Integers, Sequences, FiniteSets, TLC

(***************************************************************************)
(* Bounds of the model and constants of the program.                       *)
(***************************************************************************)
\* Largest grid dimension whose generation is explored.
MaxDim == 7
\* Successful moves are explored while state.visitedCount is below this.
MaxVisited == 4
\* View-transition callbacks that button clicks may leave pending at once.
MaxPending == 1
\* Math.max(7, ...) of the requested width/height.
MinDim == 7
\* Math.min(51, state.cols + 2) on completion.
GrowCap == 51
\* Math.max(0, 100 - timePenalty).
FinishBase == 100

\* Values of Number(widthIn.value) / Number(heightIn.value) that are tried.
ReqDims == {6, 7}
\* Values of diffSel.value that are tried during play ("zen" is not in the
\* preset table and falls back to the default).
PlayDifficulties == {"easy", "normal"}
\* Values of diffSel.value that are tried when a view transition regenerates.
RegenDifficulties == {"easy"}
\* Values of localStorage MazeHighscore at load.
HighscoreInits == {0}
\* Elapsed whole seconds read by checkCompletion.
ElapsedSecs == {5, 120}

(***************************************************************************)
(* Grid model.                                                             *)
(***************************************************************************)
MazeCell(type) == [type |-> type, filled |-> FALSE, deadEnd |-> FALSE]

NoCoord == [x |-> -1, y |-> -1]

inBounds(x, y, c, r) == x >= 0 /\ y >= 0 /\ x < c /\ y < r

Dirs4 == << <<1, 0>>, <<-1, 0>>, <<0, 1>>, <<0, -1>> >>

\* The number of 4-neighbours of (x,y) that are path cells (lines 252-262).
PathNeighbours(m, x, y, c, r) ==
    Cardinality({i \in 1 .. 4 :
        LET nx == x + Dirs4[i][1]
            ny == y + Dirs4[i][2]
        IN  inBounds(nx, ny, c, r) /\ m[ny][nx].type = "path"})

\* recomputeAllDeadEnds: every cell's flag from the cell types alone.
recomputeAllDeadEnds(m, c, r, s, e) ==
    [y \in DOMAIN m |-> [x \in DOMAIN m[y] |->
        IF inBounds(x, y, c, r)
        THEN LET cell == m[y][x]
                 isStart == s # NoCoord /\ x = s.x /\ y = s.y
                 isEnd == e # NoCoord /\ x = e.x /\ y = e.y
             IN  IF cell.type = "path"
                 THEN [cell EXCEPT !.deadEnd =
                          PathNeighbours(m, x, y, c, r) = 1 /\ ~isStart /\ ~isEnd]
                 ELSE [cell EXCEPT !.deadEnd = FALSE]
        ELSE m[y][x]]]

(***************************************************************************)
(* Maze generation (generateMazeIterative).                                *)
(***************************************************************************)
\* A dimension taken as requested, even or odd.
KeepDim(n) == n

\* Lines 275-276.
OddDim(n) == IF n % 2 = 0 THEN n + 1 ELSE n

ClampDim(n) == IF n > MinDim THEN n ELSE MinDim

\* preset.extra in hundredths, preset.shuffle is only compared with a random
\* number, and Math.round(10 * preset) of attemptMove.
PresetExtra(d) ==
    CASE d = "easy" -> 2
      [] d = "normal" -> 4
      [] d = "hard" -> 6
      [] d = "cruel" -> 8
      [] OTHER -> 4

DeadBonus(d) ==
    CASE d = "easy" -> 9
      [] d = "normal" -> 10
      [] d = "hard" -> 12
      [] d = "cruel" -> 14
      [] OTHER -> 10

ExtraCount(c, r, d) == (c * r * PresetExtra(d)) \div 100

Dirs2 == << <<2, 0>>, <<-2, 0>>, <<0, 2>>, <<0, -2>> >>

Swap(s, i, j) == [s EXCEPT ![i] = s[j], ![j] = s[i]]

\* The Fisher-Yates loop of lines 303-306 with random picks j3, j2, j1
\* (0-based, j_i in 0..i).
Shuffle(dirs, j3, j2, j1) ==
    Swap(Swap(Swap(dirs, 4, j3 + 1), 3, j2 + 1), 2, j1 + 1)

Shuffles == {Shuffle(Dirs2, j3, j2, j1) : j3 \in 0 .. 3, j2 \in 0 .. 2, j1 \in 0 .. 1}

AllWalls(c, r) == [y \in 0 .. r - 1 |-> [x \in 0 .. c - 1 |-> MazeCell("wall")]]

\* Lines 282-285: the start room is opened and pushed.
CarveInit(c, r) ==
    [maze |-> [AllWalls(c, r) EXCEPT ![1][1].type = "path"],
     stack |-> << <<1, 1>> >>]

CanCarve(m, nx, ny, c, r) ==
    nx > 0 /\ nx < c - 1 /\ ny > 0 /\ ny < r - 1 /\ m[ny][nx].type = "wall"

\* CarveStep without the opening of the wall between the two cells.
CarveStepLeavingWall(g, dirs, c, r) ==
    LET top == g.stack[Len(g.stack)]
        cx == top[1]
        cy == top[2]
        ok == {i \in 1 .. 4 : CanCarve(g.maze, cx + dirs[i][1], cy + dirs[i][2], c, r)}
    IN  IF ok = {}
        THEN [maze |-> g.maze, stack |-> SubSeq(g.stack, 1, Len(g.stack) - 1)]
        ELSE LET i == CHOOSE k \in ok : \A l \in ok : k <= l
                 dx == dirs[i][1]
                 dy == dirs[i][2]
             IN  [maze |-> [g.maze EXCEPT ![cy + dy][cx + dx].type = "path"],
                  stack |-> Append(g.stack, <<cx + dx, cy + dy>>)]

\* CarveStep that tries only the first direction of dirs and pops otherwise.
CarveStepFirstOnly(g, dirs, c, r) ==
    LET top == g.stack[Len(g.stack)]
        cx == top[1]
        cy == top[2]
        dx == dirs[1][1]
        dy == dirs[1][2]
    IN  IF ~CanCarve(g.maze, cx + dx, cy + dy, c, r)
        THEN [maze |-> g.maze, stack |-> SubSeq(g.stack, 1, Len(g.stack) - 1)]
        ELSE [maze |-> [g.maze EXCEPT ![cy + dy \div 2][cx + dx \div 2].type = "path",
                                      ![cy + dy][cx + dx].type = "path"],
              stack |-> Append(g.stack, <<cx + dx, cy + dy>>)]

\* One iteration of the while loop of lines 295-326 with shuffled dirs.
CarveStep(g, dirs, c, r) ==
    LET top == g.stack[Len(g.stack)]
        cx == top[1]
        cy == top[2]
        ok == {i \in 1 .. 4 : CanCarve(g.maze, cx + dirs[i][1], cy + dirs[i][2], c, r)}
    IN  IF ok = {}
        THEN [maze |-> g.maze, stack |-> SubSeq(g.stack, 1, Len(g.stack) - 1)]
        ELSE LET i == CHOOSE k \in ok : \A l \in ok : k <= l
                 dx == dirs[i][1]
                 dy == dirs[i][2]
             IN  [maze |-> [g.maze EXCEPT ![cy + dy \div 2][cx + dx \div 2].type = "path",
                                          ![cy + dy][cx + dx].type = "path"],
                  stack |-> Append(g.stack, <<cx + dx, cy + dy>>)]

\* One iteration of the loop of lines 329-333.
ExtraStep(m, rx, ry, hit) ==
    IF hit THEN [m EXCEPT ![ry][rx].type = "path"] ELSE m

\* Lines 335-338.
GenStart == [x |-> 1, y |-> 1]
GenEnd(c, r) == [x |-> c - 2, y |-> r - 2]

ForceStartEnd(m, c, r) ==
    [m EXCEPT ![GenStart.y][GenStart.x].type = "path",
              ![GenEnd(c, r).y][GenEnd(c, r).x].type = "path"]

RECURSIVE CarveAll(_, _, _)
CarveAll(g, c, r) ==
    IF g.stack = <<>>
    THEN {g.maze}
    ELSE UNION {CarveAll(n, c, r) : n \in {CarveStep(g, dirs, c, r) : dirs \in Shuffles}}

RECURSIVE ExtraAll(_, _, _, _)
ExtraAll(ms, n, c, r) ==
    IF n = 0
    THEN ms
    ELSE ExtraAll({ExtraStep(m, rx, ry, hit) :
                       m \in ms, rx \in 1 .. c - 2, ry \in 1 .. r - 2, hit \in BOOLEAN},
                  n - 1, c, r)

\* Every grid lines 278-342 can leave in state.maze for the explored sizes,
\* by number of extra-connection draws.
GenDims == {n \in {OddDim(ClampDim(w)) : w \in ReqDims} : n <= MaxDim}

GenKeys == {<<c, r, ExtraCount(c, r, d)>> : c \in GenDims, r \in GenDims, d \in PlayDifficulties}

GeneratedMazes ==
    [k \in GenKeys |->
        {recomputeAllDeadEnds(ForceStartEnd(m, k[1], k[2]), k[1], k[2],
                              GenStart, GenEnd(k[1], k[2])) :
            m \in ExtraAll(CarveAll(CarveInit(k[1], k[2]), k[1], k[2]), k[3], k[1], k[2])}]

(***************************************************************************)
(* The session: state of maze.js as a record, and its handlers as          *)
(* functions from session to session.                                      *)
(***************************************************************************)
\* isWalkable without its test of filled.
isWalkableThoughFilled(S, x, y) ==
    /\ inBounds(x, y, S.cols, S.rows)
    /\ S.maze[y][x].type = "path"

isWalkable(S, x, y) ==
    /\ inBounds(x, y, S.cols, S.rows)
    /\ S.maze[y][x].type = "path"
    /\ ~S.maze[y][x].filled

\* The cell, its four axis neighbours and its four diagonal neighbours.
NearWithDiagonals == << <<0, 0>>, <<1, 0>>, <<-1, 0>>, <<0, 1>>, <<0, -1>>,
                        <<1, 1>>, <<-1, 1>>, <<1, -1>>, <<-1, -1>> >>

\* coords holding the centre cell only.
NearCentreOnly == << <<0, 0>> >>

\* coords of recomputeDeadendsNear (lines 507-517).
Near == << <<0, 0>>, <<1, 0>>, <<-1, 0>>, <<0, 1>>, <<0, -1>>,
           <<2, 0>>, <<-2, 0>>, <<0, 2>>, <<0, -2>> >>

\* Lines 527-542: the walkable 4-neighbours of (x,y).
WalkNeighbours(m, x, y, c, r) ==
    Cardinality({i \in 1 .. 4 :
        LET ax == x + Dirs4[i][1]
            ay == y + Dirs4[i][2]
        IN  inBounds(ax, ay, c, r) /\ m[ay][ax].type = "path" /\ ~m[ay][ax].filled})

\* The flag of lines 527-547 computed for Wall and filled cells as well.
NearFlagOfAnyCell(m, nx, ny, c, r, s, e) ==
    /\ WalkNeighbours(m, nx, ny, c, r) = 1
    /\ ~(s # NoCoord /\ nx = s.x /\ ny = s.y)
    /\ ~(e # NoCoord /\ nx = e.x /\ ny = e.y)

\* Lines 522-547 for one visited cell.
NearFlag(m, nx, ny, c, r, s, e) ==
    IF m[ny][nx].type # "path" \/ m[ny][nx].filled
    THEN FALSE
    ELSE /\ WalkNeighbours(m, nx, ny, c, r) = 1
         /\ ~(s # NoCoord /\ nx = s.x /\ ny = s.y)
         /\ ~(e # NoCoord /\ nx = e.x /\ ny = e.y)

\* Whether state.maze[y][x] is a cell. state.cols and state.rows are set by
\* the regenBtn click before the grid is replaced, so a coordinate can pass
\* inBounds and still lie outside the grid.
HasCell(m, x, y) == y \in DOMAIN m /\ x \in DOMAIN m[y]

\* Whether iteration i of the loop of lines 518-549 throws a TypeError: it
\* reads .type of a cell the grid does not have, at line 523 or line 538.
NearThrows(m, x, y, c, r, i) ==
    LET nx == x + Near[i][1]
        ny == y + Near[i][2]
    IN  /\ inBounds(nx, ny, c, r)
        /\ \/ ~HasCell(m, nx, ny)
           \/ /\ m[ny][nx].type = "path"
              /\ ~m[ny][nx].filled
              /\ \E j \in 1 .. 4 :
                    /\ inBounds(nx + Dirs4[j][1], ny + Dirs4[j][2], c, r)
                    /\ ~HasCell(m, nx + Dirs4[j][1], ny + Dirs4[j][2])

\* Whether every coordinate that passes inBounds has a cell; no read of the
\* grid can throw then.
GridCovers(m, c, r) == (r - 1) \in DOMAIN m /\ \A y \in DOMAIN m : (c - 1) \in DOMAIN m[y]

\* The iterations the loop completes: all nine, or those before the throw.
NearDone(m, x, y, c, r) ==
    IF GridCovers(m, c, r)
    THEN 1 .. Len(Near)
    ELSE {i \in 1 .. Len(Near) : \A j \in 1 .. i : ~NearThrows(m, x, y, c, r, j)}

\* Whether recomputeDeadendsNear(x, y) ends in a TypeError.
recomputeThrows(m, x, y, c, r) ==
    /\ ~GridCovers(m, c, r)
    /\ \E i \in 1 .. Len(Near) : NearThrows(m, x, y, c, r, i)

\* recomputeDeadendsNear: the loop writes only deadEnd and reads only type and
\* filled, so the iterations it completes are independent of their order.
recomputeDeadendsNear(m, x, y, c, r, s, e) ==
    LET done == NearDone(m, x, y, c, r)
    IN  [ny \in DOMAIN m |-> [nx \in DOMAIN m[ny] |->
            IF /\ \E i \in done : nx = x + Near[i][1] /\ ny = y + Near[i][2]
               /\ inBounds(nx, ny, c, r)
            THEN [m[ny][nx] EXCEPT !.deadEnd = NearFlag(m, nx, ny, c, r, s, e)]
            ELSE m[ny][nx]]]

Max(a, b) == IF a > b THEN a ELSE b
Min(a, b) == IF a < b THEN a ELSE b

\* checkCompletion; the callback handed to withViewTransition is left pending.
checkCompletion(S, elapsedSec) ==
    IF S.player.gridX = S.end.x /\ S.player.gridY = S.end.y
    THEN LET finishBonus == Max(0, FinishBase - elapsedSec * 1)
             sc == S.score + finishBonus
         IN  [S EXCEPT !.score = sc,
                       !.highscore = IF sc > S.highscore THEN sc ELSE S.highscore,
                       !.pending = Append(S.pending,
                           [kind |-> "complete",
                            w |-> Min(GrowCap, S.cols + 2),
                            h |-> Min(GrowCap, S.rows + 2)])]
    ELSE S

\* attemptMove(dx, dy) with revChk.checked = rev, diffSel.value = d. A
\* TypeError in recomputeDeadendsNear ends the handler before line 655.
attemptMove(S, dx, dy, rev, d, elapsedSec) ==
    LET nx == S.player.gridX + dx
        ny == S.player.gridY + dy
    IN  IF ~isWalkable(S, nx, ny)
        THEN S
        ELSE LET prevX == S.player.gridX
                 prevY == S.player.gridY
                 willFill == ~rev
                 snapFilled ==
                     IF /\ willFill
                        /\ S.maze[prevY][prevX].type = "path"
                        /\ ~S.maze[prevY][prevX].filled
                     THEN <<prevX, prevY>>
                     ELSE <<>>
                 snapshot == [prevX |-> prevX, prevY |-> prevY, filled |-> snapFilled]
                 bonus ==
                     /\ S.maze[ny][nx].deadEnd
                     /\ ~(nx = S.start.x /\ ny = S.start.y)
                     /\ ~(nx = S.end.x /\ ny = S.end.y)
                 m1 == IF bonus THEN [S.maze EXCEPT ![ny][nx].deadEnd = FALSE] ELSE S.maze
                 m2 == IF snapFilled # <<>>
                       THEN recomputeDeadendsNear(
                                [m1 EXCEPT ![prevY][prevX].filled = TRUE],
                                prevX, prevY, S.cols, S.rows, S.start, S.end)
                       ELSE m1
                 moved == [S EXCEPT !.undoStack = Append(S.undoStack, snapshot),
                                    !.player = [gridX |-> nx, gridY |-> ny],
                                    !.visitedCount = S.visitedCount + 1,
                                    !.score = S.score + 1 + (IF bonus THEN DeadBonus(d) ELSE 0),
                                    !.maze = m2]
             IN  IF /\ snapFilled # <<>>
                    /\ recomputeThrows(m1, prevX, prevY, S.cols, S.rows)
                 THEN moved
                 ELSE checkCompletion(moved, elapsedSec)

\* undo that leaves the cell filled by the undone move filled.
undoKeepingFilled(S) ==
    IF Len(S.undoStack) = 0
    THEN S
    ELSE LET last == S.undoStack[Len(S.undoStack)]
         IN  [S EXCEPT !.undoStack = SubSeq(S.undoStack, 1, Len(S.undoStack) - 1),
                       !.player = [gridX |-> last.prevX, gridY |-> last.prevY]]

\* undo that also takes back the point the undone move scored.
undoTakingPointBack(S) ==
    IF Len(S.undoStack) = 0
    THEN S
    ELSE LET last == S.undoStack[Len(S.undoStack)]
         IN  [S EXCEPT !.undoStack = SubSeq(S.undoStack, 1, Len(S.undoStack) - 1),
                       !.score = S.score - 1,
                       !.player = [gridX |-> last.prevX, gridY |-> last.prevY]]

\* undo that restarts the visit count when there is nothing to undo.
undoCountingFromEmpty(S) ==
    IF Len(S.undoStack) = 0
    THEN [S EXCEPT !.visitedCount = 1]
    ELSE LET last == S.undoStack[Len(S.undoStack)]
             m1 == IF last.filled # <<>>
                   THEN recomputeDeadendsNear(
                            [S.maze EXCEPT ![last.filled[2]][last.filled[1]].filled = FALSE],
                            last.filled[1], last.filled[2], S.cols, S.rows, S.start, S.end)
                   ELSE S.maze
             threw == /\ last.filled # <<>>
                      /\ recomputeThrows(S.maze, last.filled[1], last.filled[2], S.cols, S.rows)
         IN  [S EXCEPT !.undoStack = SubSeq(S.undoStack, 1, Len(S.undoStack) - 1),
                       !.maze = m1,
                       !.player = IF threw THEN S.player
                                  ELSE [gridX |-> last.prevX, gridY |-> last.prevY]]

\* undo(). A TypeError in recomputeDeadendsNear ends the handler before
\* the agent is moved back at line 672.
undo(S) ==
    IF Len(S.undoStack) = 0
    THEN S
    ELSE LET last == S.undoStack[Len(S.undoStack)]
             m1 == IF last.filled # <<>>
                   THEN recomputeDeadendsNear(
                            [S.maze EXCEPT ![last.filled[2]][last.filled[1]].filled = FALSE],
                            last.filled[1], last.filled[2], S.cols, S.rows, S.start, S.end)
                   ELSE S.maze
             threw == /\ last.filled # <<>>
                      /\ recomputeThrows(S.maze, last.filled[1], last.filled[2], S.cols, S.rows)
         IN  [S EXCEPT !.undoStack = SubSeq(S.undoStack, 1, Len(S.undoStack) - 1),
                       !.maze = m1,
                       !.player = IF threw THEN S.player
                                  ELSE [gridX |-> last.prevX, gridY |-> last.prevY]]

\* reset that leaves the score as it is.
resetKeepingScore(S) ==
    LET cleared == [y \in DOMAIN S.maze |-> [x \in DOMAIN S.maze[y] |->
                       [S.maze[y][x] EXCEPT !.filled = FALSE, !.deadEnd = FALSE]]]
    IN  [S EXCEPT !.maze = recomputeAllDeadEnds(cleared, S.cols, S.rows, S.start, S.end),
                  !.player = [gridX |-> S.start.x, gridY |-> S.start.y],
                  !.visitedCount = 1,
                  !.undoStack = <<>>]

\* resetCurrentMaze(). When state.cols or state.rows exceed the grid,
\* recomputeAllDeadEnds reads a missing cell and its TypeError ends the
\* function before line 735: at the end of row 0 (all Wall) when a row is too
\* short, after the last row otherwise.
resetCurrentMaze(S) ==
    LET cleared == [y \in DOMAIN S.maze |-> [x \in DOMAIN S.maze[y] |->
                       [S.maze[y][x] EXCEPT !.filled = FALSE, !.deadEnd = FALSE]]]
    IN  IF GridCovers(S.maze, S.cols, S.rows)
        THEN [S EXCEPT !.maze = recomputeAllDeadEnds(cleared, S.cols, S.rows, S.start, S.end),
                       !.player = [gridX |-> S.start.x, gridY |-> S.start.y],
                       !.visitedCount = 1,
                       !.undoStack = <<>>,
                       !.score = 0]
        ELSE IF \A y \in DOMAIN S.maze : (S.cols - 1) \in DOMAIN S.maze[y]
        THEN [S EXCEPT !.maze = recomputeAllDeadEnds(cleared, S.cols, S.rows, S.start, S.end)]
        ELSE [S EXCEPT !.maze = cleared]

\* generateMazeIterative() with diffSel.value = d: every session it can leave.
generateMazeIterative(S, d) ==
    LET c == OddDim(S.cols)
        r == OddDim(S.rows)
    IN  {[S EXCEPT !.cols = c,
                   !.rows = r,
                   !.start = GenStart,
                   !.end = GenEnd(c, r),
                   !.maze = m,
                   !.player = [gridX |-> GenStart.x, gridY |-> GenStart.y],
                   !.visitedCount = 1,
                   !.undoStack = <<>>,
                   !.score = 0] : m \in GeneratedMazes[<<c, r, ExtraCount(c, r, d)>>]}

\* The carving loop of lines 295-326 when every shuffle leaves dirs in the
\* same order.
RECURSIVE CarveWith(_, _, _, _)
CarveWith(g, dirs, c, r) ==
    IF g.stack = <<>> THEN g.maze ELSE CarveWith(CarveStep(g, dirs, c, r), dirs, c, r)

\* The orders of dirs the narrow specifications generate with: down, right,
\* left, up (random picks 3, 1, 0) and right, left, down, up (picks 3, 2, 1).
FixedOrders == {Shuffle(Dirs2, 3, 1, 0), Shuffle(Dirs2, 3, 2, 1)}

\* The grids generation leaves when the shuffles give one of FixedOrders
\* throughout and no extra-connection draw opens a cell.
NarrowMazes(c, r) ==
    {recomputeAllDeadEnds(ForceStartEnd(CarveWith(CarveInit(c, r), dirs, c, r), c, r),
                          c, r, GenStart, GenEnd(c, r)) : dirs \in FixedOrders}

\* generateMazeIterative() restricted to those outcomes.
generateNarrow(S) ==
    LET c == OddDim(S.cols)
        r == OddDim(S.rows)
    IN  {[S EXCEPT !.cols = c,
                   !.rows = r,
                   !.start = GenStart,
                   !.end = GenEnd(c, r),
                   !.maze = m,
                   !.player = [gridX |-> GenStart.x, gridY |-> GenStart.y],
                   !.visitedCount = 1,
                   !.undoStack = <<>>,
                   !.score = 0] : m \in NarrowMazes(c, r)}

\* The callback a view transition runs, restricted to those outcomes.
narrowCallback(S, cb) ==
    CASE cb.kind = "regen" -> generateNarrow(S)
      [] cb.kind = "reset" -> {resetCurrentMaze(S)}
      [] OTHER -> generateNarrow([S EXCEPT !.cols = cb.w, !.rows = cb.h])

\* The callback a view transition runs: regenBtn (lines 961-964), resetBtn
\* (lines 968-970) or checkCompletion (lines 703-717).
transitionCallback(S, cb, d) ==
    CASE cb.kind = "regen" -> generateMazeIterative(S, d)
      [] cb.kind = "reset" -> {resetCurrentMaze(S)}
      [] OTHER -> generateMazeIterative([S EXCEPT !.cols = cb.w, !.rows = cb.h], d)

\* Whether the grid the callback generates is within the explored sizes.
CallbackExplored(S, cb) ==
    CASE cb.kind = "regen" -> OddDim(S.cols) <= MaxDim /\ OddDim(S.rows) <= MaxDim
      [] cb.kind = "reset" -> TRUE
      [] OTHER -> OddDim(cb.w) <= MaxDim /\ OddDim(cb.h) <= MaxDim

(***************************************************************************)
(* The state machine of the page.                                          *)
(***************************************************************************)
VARIABLES cols, rows, maze, player, start, end, undoStack, visitedCount,
          score, highscore, pending, gen, astar, bfs,
          hintBtn, deadHintBtn, astarInbox, bfsInbox

pageVars == <<cols, rows, maze, player, start, end, undoStack, visitedCount,
              score, highscore, pending>>

\* The two hint buttons and the messages posted to a worker whose handler
\* has not yet taken them up.
hintVars == <<hintBtn, deadHintBtn, astarInbox, bfsInbox>>

vars == <<pageVars, gen, astar, bfs, hintVars>>

Session ==
    [cols |-> cols, rows |-> rows, maze |-> maze, player |-> player,
     start |-> start, end |-> end, undoStack |-> undoStack,
     visitedCount |-> visitedCount, score |-> score, highscore |-> highscore,
     pending |-> pending]

Is(S) ==
    /\ cols = S.cols
    /\ rows = S.rows
    /\ maze = S.maze
    /\ player = S.player
    /\ start = S.start
    /\ end = S.end
    /\ undoStack = S.undoStack
    /\ visitedCount = S.visitedCount
    /\ score = S.score
    /\ highscore = S.highscore
    /\ pending = S.pending

Becomes(S) ==
    /\ cols' = S.cols
    /\ rows' = S.rows
    /\ maze' = S.maze
    /\ player' = S.player
    /\ start' = S.start
    /\ end' = S.end
    /\ undoStack' = S.undoStack
    /\ visitedCount' = S.visitedCount
    /\ score' = S.score
    /\ highscore' = S.highscore
    /\ pending' = S.pending
    /\ UNCHANGED <<gen, astar, bfs, hintVars>>

\* The state object of lines 93-115 before init().
Loaded(w, h, hs) ==
    [cols |-> ClampDim(w), rows |-> ClampDim(h), maze |-> <<>>,
     player |-> [gridX |-> 0, gridY |-> 0], start |-> NoCoord, end |-> NoCoord,
     undoStack |-> <<>>, visitedCount |-> 0, score |-> 0, highscore |-> hs,
     pending |-> <<>>]

\* A component that takes no part in a specification.
Idle == [phase |-> "idle"]

\* Both workers were constructed (lines 36-53), so neither button is disabled
\* at load (lines 754-755, 794-795) and nothing has been posted.
HintsReady ==
    /\ hintBtn = [disabled |-> FALSE]
    /\ deadHintBtn = [disabled |-> FALSE]
    /\ astarInbox = <<>>
    /\ bfsInbox = <<>>

\* The page after init() (lines 1002-1014).
Init ==
    /\ \E w \in ReqDims, h \in ReqDims, hs \in HighscoreInits, d \in PlayDifficulties :
        /\ OddDim(ClampDim(w)) <= MaxDim
        /\ OddDim(ClampDim(h)) <= MaxDim
        /\ \E S \in generateMazeIterative(Loaded(w, h, hs), d) : Is(S)
    /\ gen = Idle
    /\ HintsReady
    /\ astar = Idle
    /\ bfs = Idle

\* The inputs attemptMove reads on this path: diffSel.value at line 630 only
\* when the bonus is awarded, the clock only when the move ends on End.
ReadsDifficulty(S, nx, ny) ==
    /\ isWalkable(S, nx, ny)
    /\ S.maze[ny][nx].deadEnd

ReadsClock(S, nx, ny) ==
    /\ isWalkable(S, nx, ny)
    /\ nx = S.end.x /\ ny = S.end.y

\* A key, pointer or hold-interval event calling attemptMove.
AttemptMove ==
    \E i \in 1 .. 4, rev \in BOOLEAN :
        LET dx == Dirs4[i][1]
            dy == Dirs4[i][2]
            nx == player.gridX + dx
            ny == player.gridY + dy
        IN  /\ isWalkable(Session, nx, ny) => visitedCount < MaxVisited
            /\ \E d \in IF ReadsDifficulty(Session, nx, ny)
                         THEN PlayDifficulties ELSE {"normal"},
                  el \in IF ReadsClock(Session, nx, ny)
                          THEN ElapsedSecs ELSE {0} :
                   Becomes(attemptMove(Session, dx, dy, rev, d, el))

\* The undo key or button.
Undo ==
    \E S \in {undo(Session)} : Becomes(S)

\* regenBtn click: lines 959-960 run at once, the callback is left pending.
RegenClick ==
    \E w \in ReqDims, h \in ReqDims :
        /\ Len(pending) < MaxPending
        /\ Becomes([Session EXCEPT !.cols = ClampDim(w),
                                   !.rows = ClampDim(h),
                                   !.pending = Append(pending, [kind |-> "regen", w |-> 0, h |-> 0])])

\* resetBtn click.
ResetClick ==
    /\ Len(pending) < MaxPending
    /\ Becomes([Session EXCEPT !.pending = Append(pending, [kind |-> "reset", w |-> 0, h |-> 0])])

\* The browser runs the oldest pending view-transition callback.
ViewTransition ==
    /\ pending # <<>>
    /\ CallbackExplored(Session, Head(pending))
    /\ \E d \in RegenDifficulties :
           \E S \in transitionCallback([Session EXCEPT !.pending = Tail(pending)],
                                       Head(pending), d) :
               Becomes(S)

Next == AttemptMove \/ Undo \/ RegenClick \/ ResetClick \/ ViewTransition

Spec == Init /\ [][Next]_vars

(***************************************************************************)
(* generateMazeIterative step by step: one action per loop iteration.      *)
(***************************************************************************)
\* Values of diffSel.value that are tried by the stepwise generator.
GenDifficulties == {"easy", "normal", "hard", "cruel", "zen"}

\* Lines 275-294 on a page whose width/height inputs read w and h.
GenBegin(w, h, d) ==
    LET c == OddDim(ClampDim(w))
        r == OddDim(ClampDim(h))
        g == CarveInit(c, r)
    IN  [phase |-> "carve", cols |-> c, rows |-> r, diff |-> d,
         maze |-> g.maze, stack |-> g.stack, i |-> 0, extra |-> 0,
         start |-> NoCoord, end |-> NoCoord]

\* The sizes and extra-connection counts the stepwise generator is run with.
GenReqDims == {6, 7, 8, 9}

MaxGenCells == 63

MaxExtra == 2

InitGen ==
    /\ Is(Loaded(MinDim, MinDim, 0))
    /\ \E w \in GenReqDims, h \in GenReqDims, d \in GenDifficulties :
        /\ OddDim(ClampDim(w)) * OddDim(ClampDim(h)) <= MaxGenCells
        /\ ExtraCount(OddDim(ClampDim(w)), OddDim(ClampDim(h)), d) <= MaxExtra
        /\ gen = GenBegin(w, h, d)
    /\ astar = Idle
    /\ bfs = Idle
    /\ HintsReady

\* One iteration of the carving loop (lines 295-326).
GenCarve ==
    /\ gen.phase = "carve"
    /\ gen.stack # <<>>
    /\ \E j3 \in 0 .. 3, j2 \in 0 .. 2, j1 \in 0 .. 1 :
           LET g == CarveStep([maze |-> gen.maze, stack |-> gen.stack],
                              Shuffle(Dirs2, j3, j2, j1), gen.cols, gen.rows)
           IN  gen' = [gen EXCEPT !.maze = g.maze, !.stack = g.stack]
    /\ UNCHANGED <<pageVars, astar, bfs, hintVars>>

\* The carving loop exits and line 328 computes the number of draws.
GenCarved ==
    /\ gen.phase = "carve"
    /\ gen.stack = <<>>
    /\ gen' = [gen EXCEPT !.phase = "extra", !.i = 0,
                          !.extra = ExtraCount(gen.cols, gen.rows, gen.diff)]
    /\ UNCHANGED <<pageVars, astar, bfs, hintVars>>

\* One iteration of the extra-connection loop (lines 329-333).
GenExtra ==
    /\ gen.phase = "extra"
    /\ gen.i < gen.extra
    /\ \E rx \in 1 .. gen.cols - 2, ry \in 1 .. gen.rows - 2, hit \in BOOLEAN :
           gen' = [gen EXCEPT !.maze = ExtraStep(gen.maze, rx, ry, hit), !.i = gen.i + 1]
    /\ UNCHANGED <<pageVars, astar, bfs, hintVars>>

\* Lines 335-342: start and end are fixed and the flags computed.
GenFinish ==
    /\ gen.phase = "extra"
    /\ gen.i >= gen.extra
    /\ gen' = [gen EXCEPT
                  !.phase = "done",
                  !.start = GenStart,
                  !.end = GenEnd(gen.cols, gen.rows),
                  !.maze = recomputeAllDeadEnds(
                               ForceStartEnd(gen.maze, gen.cols, gen.rows),
                               gen.cols, gen.rows, GenStart, GenEnd(gen.cols, gen.rows))]
    /\ UNCHANGED <<pageVars, astar, bfs, hintVars>>

NextGen == GenCarve \/ GenCarved \/ GenExtra \/ GenFinish

SpecGen == InitGen /\ [][NextGen]_vars

(***************************************************************************)
(* astar-worker.js: one message handled by self.onmessage.                 *)
(***************************************************************************)
\* Walkability grids of the requests that are tried: every cols x rows array
\* of 0/1 for the listed sizes, and one 4 x 4 grid, open but for three cells of
\* its last row, on which a cell is pushed twice.
AStarDims == {<<3, 3>>}

BFSDims == {<<3, 2>>, <<2, 3>>}

DetourGrid ==
    [cols |-> 4, rows |-> 4,
     grid |-> [y \in 0 .. 3 |-> [x \in 0 .. 3 |-> IF y = 3 /\ x > 0 THEN 0 ELSE 1]]]

WorkerGrids(dims) ==
    {DetourGrid}
    \cup UNION {{[cols |-> wd[1], rows |-> wd[2], grid |-> g] :
                    g \in [0 .. wd[2] - 1 -> [0 .. wd[1] - 1 -> {0, 1}]]} : wd \in dims}

\* A string is the sequence of its characters.
DigitChars == <<"0", "1", "2", "3", "4", "5", "6", "7", "8", "9">>

\* The decimal numeral of a natural number.
RECURSIVE Numeral(_)
Numeral(n) ==
    IF n < 10 THEN <<DigitChars[n + 1]>> ELSE Numeral(n \div 10) \o <<DigitChars[(n % 10) + 1]>>

\* The template string `${x},${y}`.
key(x, y) == Numeral(x) \o <<",">> \o Numeral(y)

Abs(n) == IF n < 0 THEN -n ELSE n

h(a, b) == Abs(a.x - b.x) + Abs(a.y - b.y)

\* Lines 12-17: the in-range candidates, in the order they are pushed.
Candidates(x, y, c, r) ==
    (IF x > 0 THEN << <<x - 1, y>> >> ELSE <<>>)
    \o (IF x < c - 1 THEN << <<x + 1, y>> >> ELSE <<>>)
    \o (IF y > 0 THEN << <<x, y - 1>> >> ELSE <<>>)
    \o (IF y < r - 1 THEN << <<x, y + 1>> >> ELSE <<>>)

RECURSIVE FilterSeq(_, _)
FilterSeq(sq, grid) ==
    IF sq = <<>>
    THEN <<>>
    ELSE (IF grid[Head(sq)[2]][Head(sq)[1]] = 1 THEN <<Head(sq)>> ELSE <<>>)
         \o FilterSeq(Tail(sq), grid)

\* neighbors without the filter on the grid.
neighborsThroughWalls(x, y, grid, c, r) == Candidates(x, y, c, r)

\* Line 18.
neighbors(x, y, grid, c, r) == FilterSeq(Candidates(x, y, c, r), grid)

\* PQ.push: append, then sift up while strictly smaller than the parent.
\* Positions are the 0-based ones of the code; a[i + 1] is this.a[i].
RECURSIVE SiftUp(_, _)
SiftUp(a, i) ==
    IF i > 0
    THEN LET p == (i - 1) \div 2
         IN  IF a[i + 1].f < a[p + 1].f
             THEN SiftUp(Swap(a, i + 1, p + 1), p)
             ELSE a
    ELSE a

push(a, item) == SiftUp(Append(a, item), Len(a))

RECURSIVE SiftDown(_, _)
SiftDown(a, i) ==
    LET l == i * 2 + 1
        r_ == l + 1
        m1 == IF l < Len(a) /\ a[l + 1].f < a[i + 1].f THEN l ELSE i
        m == IF r_ < Len(a) /\ a[r_ + 1].f < a[m1 + 1].f THEN r_ ELSE m1
    IN  IF m = i THEN a ELSE SiftDown(Swap(a, i + 1, m + 1), m)

\* pop that takes the entry pushed last, whatever its f.
popNewest(a) == [item |-> a[Len(a)], a |-> SubSeq(a, 1, Len(a) - 1)]

\* PQ.pop on a non-empty heap: the popped item and the heap left.
pop(a) ==
    LET last == a[Len(a)]
        rest == SubSeq(a, 1, Len(a) - 1)
    IN  [item |-> a[1],
         a |-> IF Len(rest) > 0 THEN SiftDown([rest EXCEPT ![1] = last], 0) ELSE rest]

\* A path left in the order the back-links were followed, goal first.
GoalFirst(sq) == sq

\* Array.prototype.reverse (astar-worker.js line 92, bfs-worker.js line 52).
Reverse(sq) == [i \in 1 .. Len(sq) |-> sq[Len(sq) + 1 - i]]

\* A node: its coordinate, g, f and the coordinates met by following prev.
Node(x, y, g, f, back) == [x |-> x, y |-> y, g |-> g, f |-> f, back |-> back]

\* Lines 86-92: follow prev to the start node, then reverse.
PathOf(node) == Reverse(<< <<node.x, node.y>> >> \o node.back)

\* Lines 96-106 for the neighbours nbs of cur.
RECURSIVE Expand(_, _, _, _)
Expand(w, nbs, cur, endc) ==
    IF nbs = <<>>
    THEN w
    ELSE LET nb == Head(nbs)
             ng == cur.g + 1
             k == key(nb[1], nb[2])
             nf == ng + h([x |-> nb[1], y |-> nb[2]], endc)
             node == Node(nb[1], nb[2], ng, nf, << <<cur.x, cur.y>> >> \o cur.back)
         IN  IF k \notin DOMAIN w.open \/ ng < w.open[k].g
             THEN Expand([w EXCEPT !.open = (k :> node) @@ w.open,
                                   !.pq = push(w.pq, node)],
                         Tail(nbs), cur, endc)
             ELSE Expand(w, Tail(nbs), cur, endc)

\* A request as posted; has lists the fields of the message that are present.
AStarRequest(cmd, wg, st, en, has) ==
    [cmd |-> cmd, grid |-> wg.grid, cols |-> wg.cols, rows |-> wg.rows,
     start |-> st, end |-> en, has |-> has]

AStarPosted(req) ==
    [phase |-> "posted", req |-> req, pq |-> <<>>, open |-> <<>>, steps |-> 0,
     pops |-> 0, out |-> <<>>]

Result(path) == [cmd |-> "result", path |-> path]

\* A null path.
NoPath == <<>>

\* Lines 5-79: the handler up to the loop. Reading start.x of a missing start
\* throws a TypeError and the handler ends without posting.
AStarStart(w) ==
    IF w.req.cmd # "astar"
    THEN [w EXCEPT !.phase = "ignored"]
    ELSE IF "start" \notin w.req.has
    THEN [w EXCEPT !.phase = "threw"]
    ELSE LET st == w.req.start
             startNode == Node(st.x, st.y, 0, h(st, w.req.end), <<>>)
         IN  [w EXCEPT !.phase = "loop",
                       !.open = key(st.x, st.y) :> startNode,
                       !.pq = push(<<>>, startNode)]

MAX_STEPS(w) == w.req.cols * w.req.rows * 10

\* The loop condition of line 81, without its steps++.
LoopContinues(w) == Len(w.pq) # 0 /\ w.steps < MAX_STEPS(w)

\* The walkability array both hint handlers build from the live grid
\* (maze.js lines 760-768 and 800-819): 1 for a Path cell that is not filled.
WalkGrid(S) ==
    [y \in 0 .. S.rows - 1 |-> [x \in 0 .. S.cols - 1 |->
        IF S.maze[y][x].type = "path" /\ ~S.maze[y][x].filled THEN 1 ELSE 0]]

\* A worker whose request holds the live grid instead of a copy of it.
LiveGrid(w) == [w EXCEPT !.req.grid = WalkGrid(Session)]

\* One iteration of the loop of lines 81-107. Filtering a non-empty candidate
\* list indexes the grid, which throws when the grid is missing.
AStarIterate(w) ==
    LET popped == pop(w.pq)
        cur == popped.item
        w1 == [w EXCEPT !.pq = popped.a, !.steps = w.steps + 1, !.pops = w.pops + 1]
    IN  IF cur.x = w.req.end.x /\ cur.y = w.req.end.y
        THEN [w1 EXCEPT !.phase = "done", !.out = Append(w.out, Result(PathOf(cur)))]
        ELSE IF /\ "grid" \notin w.req.has
                /\ Candidates(cur.x, cur.y, w.req.cols, w.req.rows) # <<>>
        THEN [w1 EXCEPT !.phase = "threw"]
        ELSE IF "grid" \notin w.req.has
        THEN w1
        ELSE Expand(w1, neighbors(cur.x, cur.y, w.req.grid, w.req.cols, w.req.rows),
                    cur, w.req.end)

\* The loop ends (steps++ runs only when the frontier is not empty) and line
\* 109 posts the null path.
AStarGiveUp(w) ==
    [w EXCEPT !.phase = "done",
              !.steps = IF Len(w.pq) # 0 THEN w.steps + 1 ELSE w.steps,
              !.out = Append(w.out, Result(NoPath))]

Coords(c, r) == {[x |-> x, y |-> y] : x \in 0 .. c - 1, y \in 0 .. r - 1}

\* The fields a request can lack.
Lacks == {{}, {"grid"}, {"start"}, {"grid", "start"}}

\* Requests on one grid that lack a field.
MalformedGrid == [cols |-> 2, rows |-> 1, grid |-> [y \in {0} |-> [x \in {0, 1} |-> 1]]]

InitAStar ==
    /\ Is(Loaded(MinDim, MinDim, 0))
    /\ gen = Idle
    /\ HintsReady
    /\ bfs = Idle
    /\ \/ \E wg \in WorkerGrids(AStarDims) :
            \E st \in Coords(wg.cols, wg.rows), en \in Coords(wg.cols, wg.rows) :
                astar = AStarPosted(AStarRequest("astar", wg, st, en, {"grid", "start"}))
       \/ \E cmd \in {"astar", "bfs-deadend"}, st \in Coords(2, 1), en \in Coords(2, 1),
             lk \in Lacks :
            astar = AStarPosted(AStarRequest(cmd, MalformedGrid, st, en,
                                             {"grid", "start"} \ lk))

AStarOnMessage ==
    /\ astar.phase = "posted"
    /\ astar' = AStarStart(astar)
    /\ UNCHANGED <<pageVars, gen, bfs, hintVars>>

\* AStarLoop in a worker that reads the live grid at each iteration.
AStarLoopOnLive ==
    /\ astar.phase = "loop"
    /\ LoopContinues(astar)
    /\ astar' = [AStarIterate(LiveGrid(astar)) EXCEPT !.req = astar.req]
    /\ UNCHANGED <<pageVars, gen, bfs, hintVars>>

AStarLoop ==
    /\ astar.phase = "loop"
    /\ LoopContinues(astar)
    /\ astar' = AStarIterate(astar)
    /\ UNCHANGED <<pageVars, gen, bfs, hintVars>>

AStarNoPath ==
    /\ astar.phase = "loop"
    /\ ~LoopContinues(astar)
    /\ astar' = AStarGiveUp(astar)
    /\ UNCHANGED <<pageVars, gen, bfs, hintVars>>

NextAStar == AStarOnMessage \/ AStarLoop \/ AStarNoPath

SpecAStar == InitAStar /\ [][NextAStar]_vars

(***************************************************************************)
(* bfs-worker.js: one message handled by self.onmessage.                   *)
(***************************************************************************)
\* str.split(','): the pieces of str between commas.
RECURSIVE split(_)
split(str) ==
    IF \E i \in 1 .. Len(str) : str[i] = ","
    THEN LET i == CHOOSE j \in 1 .. Len(str) :
                      str[j] = "," /\ \A l \in 1 .. j - 1 : str[l] # ","
         IN  <<SubSeq(str, 1, i - 1)>> \o split(SubSeq(str, i + 1, Len(str)))
    ELSE <<str>>

DigitValue(ch) == (CHOOSE i \in 1 .. 10 : DigitChars[i] = ch) - 1

\* Number(str) for a decimal numeral.
RECURSIVE Number(_)
Number(str) ==
    IF Len(str) = 0
    THEN 0
    ELSE Number(SubSeq(str, 1, Len(str) - 1)) * 10 + DigitValue(str[Len(str)])

\* cur.split(',').map(Number), as the pair [sx, sy].
ParseKey(k) == LET parts == split(k) IN <<Number(parts[1]), Number(parts[2])>>

\* A null parent, and the falsy cur that ends the walk of lines 46-50.
NoKey == <<>>

\* Lines 43-51: walk the parent map from key k, then reverse.
RECURSIVE Walk(_, _)
Walk(parent, cur) ==
    IF cur = NoKey THEN <<>> ELSE <<ParseKey(cur)>> \o Walk(parent, parent[cur])

BFSRequest(cmd, wg, st, targets, has) ==
    [cmd |-> cmd, grid |-> wg.grid, cols |-> wg.cols, rows |-> wg.rows,
     start |-> st, deadEnds |-> targets, has |-> has]

BFSPosted(req) ==
    [phase |-> "posted", req |-> req, q |-> <<>>, visited |-> {}, parent |-> <<>>,
     deadSet |-> {}, out |-> <<>>]

\* Lines 8-37: the handler up to the loop.
BFSStart(w) ==
    IF w.req.cmd # "bfs-deadend"
    THEN [w EXCEPT !.phase = "ignored"]
    ELSE IF "grid" \notin w.req.has \/ "start" \notin w.req.has
    THEN [w EXCEPT !.phase = "done", !.out = Append(w.out, Result(NoPath))]
    ELSE LET st == w.req.start
         IN  [w EXCEPT !.phase = "loop",
                       !.deadSet = {key(t[1], t[2]) : t \in w.req.deadEnds},
                       !.q = << <<st.x, st.y>> >>,
                       !.visited = {key(st.x, st.y)},
                       !.parent = key(st.x, st.y) :> NoKey]

\* Visit that puts a new cell at the front of the queue.
RECURSIVE VisitDepthFirst(_, _, _)
VisitDepthFirst(w, nbs, k) ==
    IF nbs = <<>>
    THEN w
    ELSE LET nb == Head(nbs)
             nk == key(nb[1], nb[2])
         IN  IF nk \notin w.visited
             THEN VisitDepthFirst([w EXCEPT !.visited = w.visited \cup {nk},
                                            !.parent = (nk :> k) @@ w.parent,
                                            !.q = <<nb>> \o w.q],
                                  Tail(nbs), k)
             ELSE VisitDepthFirst(w, Tail(nbs), k)

\* Visit that looks at the first neighbour only.
VisitFirstOnly(w, nbs, k) ==
    IF nbs = <<>>
    THEN w
    ELSE LET nb == Head(nbs)
             nk == key(nb[1], nb[2])
         IN  IF nk \notin w.visited
             THEN [w EXCEPT !.visited = w.visited \cup {nk},
                            !.parent = (nk :> k) @@ w.parent,
                            !.q = Append(w.q, nb)]
             ELSE w

\* Lines 58-65 for the neighbours nbs of the dequeued cell with key k.
RECURSIVE Visit(_, _, _)
Visit(w, nbs, k) ==
    IF nbs = <<>>
    THEN w
    ELSE LET nb == Head(nbs)
             nk == key(nb[1], nb[2])
         IN  IF nk \notin w.visited
             THEN Visit([w EXCEPT !.visited = w.visited \cup {nk},
                                  !.parent = (nk :> k) @@ w.parent,
                                  !.q = Append(w.q, nb)],
                        Tail(nbs), k)
             ELSE Visit(w, Tail(nbs), k)

\* One iteration of the loop of lines 39-65.
BFSIterate(w) ==
    LET cx == Head(w.q)[1]
        cy == Head(w.q)[2]
        k == key(cx, cy)
        w1 == [w EXCEPT !.q = Tail(w.q)]
    IN  IF k \in w.deadSet
        THEN [w1 EXCEPT !.phase = "done",
                        !.out = Append(w.out, Result(Reverse(Walk(w.parent, k))))]
        ELSE Visit(w1, neighbors(cx, cy, w.req.grid, w.req.cols, w.req.rows), k)

\* Line 68.
BFSGiveUp(w) == [w EXCEPT !.phase = "done", !.out = Append(w.out, Result(NoPath))]

\* The target lists tried hold at most this many coordinates.
MaxTargets == 2

Pairs(c, r) == {<<x, y>> : x \in 0 .. c - 1, y \in 0 .. r - 1}

TargetSets(c, r) == {ts \in SUBSET Pairs(c, r) : Cardinality(ts) <= MaxTargets}

InitBFS ==
    /\ Is(Loaded(MinDim, MinDim, 0))
    /\ gen = Idle
    /\ HintsReady
    /\ astar = Idle
    /\ \/ \E wg \in WorkerGrids(BFSDims) :
            \E st \in Coords(wg.cols, wg.rows), ts \in TargetSets(wg.cols, wg.rows) :
                bfs = BFSPosted(BFSRequest("bfs-deadend", wg, st, ts, {"grid", "start"}))
       \/ \E cmd \in {"astar", "bfs-deadend"}, st \in Coords(2, 1),
             ts \in TargetSets(2, 1), lk \in Lacks :
            bfs = BFSPosted(BFSRequest(cmd, MalformedGrid, st, ts, {"grid", "start"} \ lk))

BFSOnMessage ==
    /\ bfs.phase = "posted"
    /\ bfs' = BFSStart(bfs)
    /\ UNCHANGED <<pageVars, gen, astar, hintVars>>

BFSLoop ==
    /\ bfs.phase = "loop"
    /\ Len(bfs.q) # 0
    /\ bfs' = BFSIterate(bfs)
    /\ UNCHANGED <<pageVars, gen, astar, hintVars>>

BFSNoTarget ==
    /\ bfs.phase = "loop"
    /\ Len(bfs.q) = 0
    /\ bfs' = BFSGiveUp(bfs)
    /\ UNCHANGED <<pageVars, gen, astar, hintVars>>

NextBFS == BFSOnMessage \/ BFSLoop \/ BFSNoTarget

SpecBFS == InitBFS /\ [][NextBFS]_vars

(***************************************************************************)
(* Properties of the session.                                              *)
(***************************************************************************)
Cells(S) == {<<x, y>> : x \in 0 .. S.cols - 1, y \in 0 .. S.rows - 1}

DeadEndSet(m, c, r) ==
    {p \in {<<x, y>> : x \in 0 .. c - 1, y \in 0 .. r - 1} : m[p[2]][p[1]].deadEnd}

FilledSet(m, c, r) ==
    {p \in {<<x, y>> : x \in 0 .. c - 1, y \in 0 .. r - 1} : m[p[2]][p[1]].filled}

\* The dead-end definition of the data model: Path, not filled, exactly one
\* Path-and-not-filled 4-neighbour, neither Start nor End.
IsDeadEndByDefinition(S, x, y) ==
    /\ S.maze[y][x].type = "path"
    /\ ~S.maze[y][x].filled
    /\ Cardinality({q \in Cells(S) :
           /\ (q[1] - x) * (q[1] - x) + (q[2] - y) * (q[2] - y) = 1
           /\ S.maze[q[2]][q[1]].type = "path"
           /\ ~S.maze[q[2]][q[1]].filled}) = 1
    /\ <<x, y>> # <<S.start.x, S.start.y>>
    /\ <<x, y>> # <<S.end.x, S.end.y>>

\* C1: after any sequence of moves and undos the cells flagged as dead ends
\* by the incremental maintenance are exactly those a full recompute
\* (recomputeAllDeadEnds) flags on the same grid.
C1_IncrementalEqualsFull ==
    DeadEndSet(maze, cols, rows)
        = DeadEndSet(recomputeAllDeadEnds(maze, cols, rows, start, end), cols, rows)

\* C2: an undo right after a successful attemptMove restores the agent
\* position and every cell's filled and dead-end flags, with reverse mode on
\* or off.
C2_UndoRestoresMove ==
    \A i \in 1 .. 4, rev \in BOOLEAN, d \in PlayDifficulties, el \in ElapsedSecs :
        LET dx == Dirs4[i][1]
            dy == Dirs4[i][2]
            after == undo(attemptMove(Session, dx, dy, rev, d, el))
        IN  isWalkable(Session, player.gridX + dx, player.gridY + dy) =>
                /\ after.player = player
                /\ FilledSet(after.maze, cols, rows) = FilledSet(maze, cols, rows)
                /\ DeadEndSet(after.maze, cols, rows) = DeadEndSet(maze, cols, rows)

\* C6: a cell's dead-end flag is set if and only if the cell is a dead end by
\* the definition of the data model.
C6_FlagIffDeadEnd ==
    \A p \in Cells(Session) :
        maze[p[2]][p[1]].deadEnd <=> IsDeadEndByDefinition(Session, p[1], p[2])

AgentOnWalkable ==
    /\ player.gridX >= 0 /\ player.gridX < cols
    /\ player.gridY >= 0 /\ player.gridY < rows
    /\ maze[player.gridY][player.gridX].type = "path"
    /\ ~maze[player.gridY][player.gridX].filled

AgentAtStart == player.gridX = start.x /\ player.gridY = start.y

\* A step that ran a generation or a reset: a view-transition callback left
\* the pending list.
TransitionRan == Len(pending') < Len(pending)

\* C7: the agent is always in bounds on a Path cell that is not filled, and
\* right after generation or reset it is at Start.
C7_AgentWalkable ==
    /\ AgentAtStart
    /\ []AgentOnWalkable
    /\ [][TransitionRan => AgentAtStart']_vars

\* C7 witness: moves and an undo have been made and one cell is filled.
C7_Witness ==
    /\ visitedCount > Len(undoStack) + 1
    /\ Len(undoStack) > 0
    /\ FilledSet(maze, cols, rows) # {}
    /\ ~AgentAtStart

\* The destinations the claim calls invalid, stated on the grid itself.
InvalidDestination(S, x, y) ==
    \/ x < 0 \/ y < 0 \/ x >= S.cols \/ y >= S.rows
    \/ S.maze[y][x].type = "wall"
    \/ S.maze[y][x].filled

StepRange == -2 .. 2

\* C8: attemptMove to an out-of-bounds, Wall or filled destination changes
\* nothing of the session.
C8_RejectedMoveIsNoOp ==
    \A dx \in StepRange, dy \in StepRange, rev \in BOOLEAN,
       d \in PlayDifficulties, el \in ElapsedSecs :
        InvalidDestination(Session, player.gridX + dx, player.gridY + dy) =>
            attemptMove(Session, dx, dy, rev, d, el) = Session

\* C8 witness: after a move and an undo the agent stands next to a wall, next
\* to a filled cell, and within two steps of the outside of the grid.
C8_Witness ==
    /\ visitedCount > 2
    /\ \E i \in 1 .. 4 :
           LET x == player.gridX + Dirs4[i][1]
               y == player.gridY + Dirs4[i][2]
           IN  inBounds(x, y, cols, rows) /\ maze[y][x].type = "wall"
    /\ \E i \in 1 .. 4 :
           LET x == player.gridX + Dirs4[i][1]
               y == player.gridY + Dirs4[i][2]
           IN  inBounds(x, y, cols, rows) /\ maze[y][x].filled
    /\ \E dx \in StepRange : ~inBounds(player.gridX + dx, player.gridY, cols, rows)


(***************************************************************************)
(* Properties of the search services.                                      *)
(***************************************************************************)
Adjacent(a, b) == Abs(a.x - b.x) + Abs(a.y - b.y) = 1

\* The cells within n hops of s, each hop onto an adjacent cell marked 1.
RECURSIVE Within(_, _, _, _, _)
Within(grid, c, r, s, n) ==
    IF n = 0
    THEN {s}
    ELSE LET W == Within(grid, c, r, s, n - 1)
         IN  W \cup {p \in Coords(c, r) : grid[p.y][p.x] = 1 /\ \E q \in W : Adjacent(p, q)}

\* The cells of W and those that can be reached from its newest cells F.
RECURSIVE Flood(_, _, _, _, _)
Flood(grid, c, r, W, F) ==
    LET N == {p \in Coords(c, r) \ W : grid[p.y][p.x] = 1 /\ \E q \in F : Adjacent(p, q)}
    IN  IF N = {} THEN W ELSE Flood(grid, c, r, W \cup N, N)

ReachableFrom(grid, c, r, s) == Flood(grid, c, r, {s}, {s})

\* The breadth-first distance from s to a cell t reachable from it.
Distance(grid, c, r, s, t) ==
    CHOOSE n \in 0 .. c * r :
        /\ t \in Within(grid, c, r, s, n)
        /\ n = 0 \/ t \notin Within(grid, c, r, s, n - 1)

Complete(req) == req.has = {"grid", "start"}

AStarAsked == astar.phase # "idle" /\ astar.req.cmd = "astar"

AStarSolvable ==
    astar.req.end \in ReachableFrom(astar.req.grid, astar.req.cols, astar.req.rows,
                                    astar.req.start)

AStarDistance ==
    Distance(astar.req.grid, astar.req.cols, astar.req.rows, astar.req.start, astar.req.end)

\* An entry of the frontier that a later, cheaper entry for its cell replaced.
StaleEntry ==
    \E i \in 1 .. Len(astar.pq) :
        astar.pq[i].g > astar.open[key(astar.pq[i].x, astar.pq[i].y)].g

\* C3: on a complete request whose goal is reachable from its start over
\* walkable cells, the A* service never throws, and when it has answered it
\* has posted exactly one result whose path is not null, runs from start to
\* goal and has as many steps as the breadth-first distance.
C3_AStarShortest ==
    (AStarAsked /\ Complete(astar.req) /\ astar.phase \notin {"posted", "loop"}) =>
        \/ /\ astar.phase = "done"
           /\ Len(astar.out) = 1
           /\ astar.out[1].path # NoPath
           /\ astar.out[1].path[1] = <<astar.req.start.x, astar.req.start.y>>
           /\ astar.out[1].path[Len(astar.out[1].path)]
                  = <<astar.req.end.x, astar.req.end.y>>
           /\ Len(astar.out[1].path) - 1 = AStarDistance
        \/ ~AStarSolvable

\* A solved request on which the path bends round walls and a replaced entry
\* is still in the frontier.
C3_Witness ==
    /\ AStarAsked /\ Complete(astar.req) /\ AStarSolvable
    /\ astar.phase = "done"
    /\ AStarDistance >= 4
    /\ StaleEntry

\* C9: on a complete request whose goal is not reachable from its start, the
\* A* service never pops more than 10 x cols x rows entries, never throws, and
\* when it has answered it has posted exactly one result, with a null path;
\* every step of its loop pops one more entry or answers, so it cannot loop
\* for ever.
C9_Unsolvable ==
    /\ []((AStarAsked /\ Complete(astar.req)) =>
            \/ /\ astar.pops <= 10 * astar.req.cols * astar.req.rows
               /\ astar.phase \in {"posted", "loop", "done"}
               /\ astar.phase = "done" => astar.out = <<Result(NoPath)>>
            \/ AStarSolvable)
    /\ [][(AStarAsked /\ Complete(astar.req) /\ astar.phase = "loop") =>
            \/ astar'.pops = astar.pops + 1
            \/ astar'.phase = "done"
            \/ AStarSolvable]_vars

C9_Witness ==
    /\ AStarAsked /\ Complete(astar.req) /\ ~AStarSolvable
    /\ astar.phase = "done"
    /\ astar.pops >= 5
    /\ astar.out = <<Result(NoPath)>>

BFSAsked == bfs.phase # "idle" /\ bfs.req.cmd = "bfs-deadend"

\* The targets of the request that can be reached from its start.
ReachableTargets ==
    {t \in bfs.req.deadEnds :
        [x |-> t[1], y |-> t[2]]
            \in ReachableFrom(bfs.req.grid, bfs.req.cols, bfs.req.rows, bfs.req.start)}

TargetDistance(t) ==
    Distance(bfs.req.grid, bfs.req.cols, bfs.req.rows, bfs.req.start,
             [x |-> t[1], y |-> t[2]])

\* C4: on a complete request with a target reachable from its start, the BFS
\* service answers with one result whose path starts at start and ends at a
\* reachable target that no other reachable target is closer than.
C4_BFSNearest ==
    (BFSAsked /\ Complete(bfs.req) /\ bfs.phase = "done") =>
        \/ /\ Len(bfs.out) = 1
           /\ bfs.out[1].path # NoPath
           /\ bfs.out[1].path[1] = <<bfs.req.start.x, bfs.req.start.y>>
           /\ LET found == bfs.out[1].path[Len(bfs.out[1].path)]
              IN  /\ found \in ReachableTargets
                  /\ \A t \in ReachableTargets : TargetDistance(found) <= TargetDistance(t)
        \/ ReachableTargets = {}

C4_Witness ==
    /\ BFSAsked /\ Complete(bfs.req)
    /\ bfs.phase = "done"
    /\ Cardinality(ReachableTargets) = 2
    /\ \E t, u \in ReachableTargets :
        /\ TargetDistance(t) >= 2
        /\ TargetDistance(u) > TargetDistance(t)
        /\ bfs.out = <<Result(bfs.out[1].path)>>
        /\ bfs.out[1].path # NoPath
        /\ bfs.out[1].path[Len(bfs.out[1].path)] = t

\* C10: a request for a service that lacks its grid or its start is answered
\* by that service, without throwing, by one result with a null path posted
\* before any search step.
C10_MalformedAnsweredNull ==
    /\ (AStarAsked /\ ~Complete(astar.req)) =>
        /\ astar.phase \in {"posted", "done"}
        /\ astar.phase = "done" => astar.out = <<Result(NoPath)>>
    /\ (BFSAsked /\ ~Complete(bfs.req)) =>
        /\ bfs.phase \in {"posted", "done"}
        /\ bfs.phase = "done" => bfs.out = <<Result(NoPath)>>

(***************************************************************************)
(* Properties of the generator.                                            *)
(***************************************************************************)
\* The 0/1 array of the Path cells of a maze, whatever is filled.
PathGrid(m, c, r) ==
    [y \in 0 .. r - 1 |-> [x \in 0 .. c - 1 |-> IF m[y][x].type = "path" THEN 1 ELSE 0]]

PathCells(m, c, r) == {p \in Coords(c, r) : m[p.y][p.x].type = "path"}

\* C5: in every maze the generator has finished, End (cols-2, rows-2) is
\* reachable from Start (1, 1) through 4-adjacent Path cells.
C5_EndReachable ==
    gen.phase = "done" =>
        /\ gen.start = [x |-> 1, y |-> 1]
        /\ gen.end = [x |-> gen.cols - 2, y |-> gen.rows - 2]
        /\ gen.maze[gen.start.y][gen.start.x].type = "path"
        /\ gen.end \in ReachableFrom(PathGrid(gen.maze, gen.cols, gen.rows),
                                     gen.cols, gen.rows, gen.start)

\* A finished maze in which an extra connection closed a cycle.
C5_Witness ==
    /\ gen.phase = "done"
    /\ gen.extra >= 1
    /\ Cardinality(PathCells(gen.maze, gen.cols, gen.rows))
           > 2 * ((gen.cols \div 2) * (gen.rows \div 2)) - 1

(***************************************************************************)
(* Properties of requests and responses.                                   *)
(***************************************************************************)
\* The handler has returned or thrown.
AStarEnded == astar.phase \in {"done", "threw", "ignored"}

BFSEnded == bfs.phase \in {"done", "threw", "ignored"}

\* C11: a request carrying the service's command never has more than one
\* result posted for it, and when its handler has ended exactly one result
\* has been posted, whether a path was found, the frontier ran out, the
\* budget was reached or the request was malformed.
C11_ExactlyOneResponse ==
    /\ AStarAsked =>
        /\ Len(astar.out) <= 1
        /\ AStarEnded => Len(astar.out) = 1
    /\ BFSAsked =>
        /\ Len(bfs.out) <= 1
        /\ BFSEnded => Len(bfs.out) = 1

(***************************************************************************)
(* Gameplay interleaved with the two search services: the hint buttons     *)
(* post snapshots of the live grid and the workers run while play goes on. *)
(***************************************************************************)
\* Moves made in this specification stop at this many visited cells.
MaxHintVisited == 3

InitHint ==
    /\ \E S \in generateNarrow(Loaded(MinDim, MinDim, 0)) : Is(S)
    /\ gen = Idle
    /\ HintsReady
    /\ astar = Idle
    /\ bfs = Idle

HintMove ==
    /\ visitedCount < MaxHintVisited
    /\ AttemptMove

HintTransition ==
    /\ pending # <<>>
    /\ \E S \in narrowCallback([Session EXCEPT !.pending = Tail(pending)], Head(pending)) :
           Becomes(S)

\* A handler that leaves its button as it is.
LeftEnabled(btn) == btn

\* Line 758 and line 798: the handler disables its button first.
Disabled(btn) == [btn EXCEPT !.disabled = TRUE]

\* Line 779, line 822 and line 838.
Enabled(btn) == [btn EXCEPT !.disabled = FALSE]

\* Requests waiting at one worker in the variant that can queue any.
MaxInbox == 2

\* hintBtn click (lines 757-776). A disabled button dispatches no click.
\* Reading state.maze[y][x] over state.rows by state.cols throws when the grid
\* lacks a cell, after the button was disabled and before anything is posted.
\* postMessage hands the request to the worker, which takes it up at once
\* when its handler is not busy with an earlier one.
HintClick ==
    /\ ~hintBtn.disabled
    /\ Len(astarInbox) < MaxInbox
    /\ hintBtn' = Disabled(hintBtn)
    /\ IF GridCovers(maze, cols, rows)
       THEN LET req == AStarRequest("astar",
                           [cols |-> cols, rows |-> rows, grid |-> WalkGrid(Session)],
                           [x |-> player.gridX, y |-> player.gridY],
                           [x |-> end.x, y |-> end.y], {"grid", "start"})
            IN  IF astar.phase = "idle"
                THEN astar' = AStarPosted(req) /\ astarInbox' = astarInbox
                ELSE astar' = astar /\ astarInbox' = Append(astarInbox, req)
       ELSE UNCHANGED <<astar, astarInbox>>
    /\ UNCHANGED <<pageVars, gen, bfs, deadHintBtn, bfsInbox>>

\* The deadEnds list of lines 811-817.
DeadEndList(S) ==
    {p \in Pairs(S.cols, S.rows) :
        /\ S.maze[p[2]][p[1]].type = "path" /\ ~S.maze[p[2]][p[1]].filled
        /\ S.maze[p[2]][p[1]].deadEnd
        /\ ~(p[1] = S.player.gridX /\ p[2] = S.player.gridY)}

\* deadHintBtn click (lines 797-835). With an empty list the handler enables
\* the button again and returns without posting (lines 821-825).
DeadHintClick ==
    /\ ~deadHintBtn.disabled
    /\ Len(bfsInbox) < MaxInbox
    /\ IF ~GridCovers(maze, cols, rows)
       THEN /\ deadHintBtn' = Disabled(deadHintBtn)
            /\ UNCHANGED <<bfs, bfsInbox>>
       ELSE IF DeadEndList(Session) = {}
       THEN /\ deadHintBtn' = Enabled(Disabled(deadHintBtn))
            /\ UNCHANGED <<bfs, bfsInbox>>
       ELSE LET req == BFSRequest("bfs-deadend",
                           [cols |-> cols, rows |-> rows, grid |-> WalkGrid(Session)],
                           [x |-> player.gridX, y |-> player.gridY],
                           DeadEndList(Session), {"grid", "start"})
            IN  /\ deadHintBtn' = Disabled(deadHintBtn)
                /\ IF bfs.phase = "idle"
                   THEN bfs' = BFSPosted(req) /\ bfsInbox' = bfsInbox
                   ELSE bfs' = bfs /\ bfsInbox' = Append(bfsInbox, req)
    /\ UNCHANGED <<pageVars, gen, astar, hintBtn, astarInbox>>

\* In this specification behaviours are explored with one request, of either
\* service, in each.
HintClickOne ==
    /\ astar.phase = "idle"
    /\ bfs.phase = "idle"
    /\ HintClick

DeadHintClickOne ==
    /\ astar.phase = "idle"
    /\ bfs.phase = "idle"
    /\ DeadEndList(Session) # {}
    /\ DeadHintClick

WorkerStep ==
    \/ AStarOnMessage \/ AStarLoop \/ AStarNoPath
    \/ BFSOnMessage \/ BFSLoop \/ BFSNoTarget

\* regenBtn click while no callback is pending.
HintRegen ==
    \E rw \in ReqDims, rh \in ReqDims :
        /\ pending = <<>>
        /\ Becomes([Session EXCEPT !.cols = ClampDim(rw),
                                   !.rows = ClampDim(rh),
                                   !.pending = Append(pending, [kind |-> "regen", w |-> 0, h |-> 0])])

\* resetBtn click while no callback is pending.
HintReset ==
    /\ pending = <<>>
    /\ Becomes([Session EXCEPT !.pending = Append(pending, [kind |-> "reset", w |-> 0, h |-> 0])])

NextHint ==
    \/ HintMove \/ Undo \/ HintRegen \/ HintReset \/ HintTransition
    \/ HintClickOne \/ DeadHintClickOne
    \/ WorkerStep

SpecHint == InitHint /\ [][NextHint]_vars

\* The handler of astar-worker.js run from a posted request to its end with
\* nothing else happening.
RECURSIVE AStarRun(_)
AStarRun(w) ==
    IF w.phase = "posted"
    THEN AStarRun(AStarStart(w))
    ELSE IF w.phase = "loop"
    THEN IF LoopContinues(w) THEN AStarRun(AStarIterate(w)) ELSE AStarGiveUp(w)
    ELSE w

\* The same for bfs-worker.js.
RECURSIVE BFSRun(_)
BFSRun(w) ==
    IF w.phase = "posted"
    THEN BFSRun(BFSStart(w))
    ELSE IF w.phase = "loop"
    THEN IF Len(w.q) # 0 THEN BFSRun(BFSIterate(w)) ELSE BFSGiveUp(w)
    ELSE w

\* C12: whatever play does to the live grid between a request and its
\* response, the result posted is the one the request alone determines, and
\* no step that posts or handles a request changes the live grid, the agent,
\* the undo stack or the score.
C12_SnapshotIsolation ==
    /\ [](astar.phase = "done" => astar.out = AStarRun(AStarPosted(astar.req)).out)
    /\ [](bfs.phase = "done" => bfs.out = BFSRun(BFSPosted(bfs.req)).out)
    /\ [][(astar' # astar \/ bfs' # bfs) => UNCHANGED pageVars]_vars

\* A path has been answered after the live grid and the agent moved away
\* from the snapshot it was computed on.
C12_Witness ==
    /\ astar.phase = "done"
    /\ astar.out[1].path # NoPath
    /\ cols = astar.req.cols /\ rows = astar.req.rows
    /\ WalkGrid(Session) # astar.req.grid
    /\ astar.req.start # [x |-> player.gridX, y |-> player.gridY]

(***************************************************************************)
(* Play to the end of a maze: sessions deep enough to reach End, complete  *)
(* the maze and grow it, on the grids of NarrowMazes.                      *)
(***************************************************************************)
\* Moves on a maze of the smallest size stop at this many visited cells.
MaxFinishVisited == 9

\* A maze of the smallest size is played to its end, a larger one only
\* MaxVisited deep.
FinishDepth == IF end = GenEnd(MinDim, MinDim) THEN MaxFinishVisited ELSE MaxVisited

\* revChk.checked stays off here; Spec explores both values.
FinishReverse == {FALSE}

\* Values of widthIn.value and heightIn.value at a regenBtn click.
FinishReqDims == {7, 8}

InitFinish ==
    /\ \E hs \in HighscoreInits :
        \E S \in generateNarrow(Loaded(MinDim, MinDim, hs)) : Is(S)
    /\ gen = Idle
    /\ HintsReady
    /\ astar = Idle
    /\ bfs = Idle

\* A key, pointer or hold-interval event calling attemptMove.
FinishMove ==
    \E i \in 1 .. 4, rev \in FinishReverse :
        LET dx == Dirs4[i][1]
            dy == Dirs4[i][2]
            nx == player.gridX + dx
            ny == player.gridY + dy
        IN  /\ isWalkable(Session, nx, ny) => visitedCount < FinishDepth
            /\ \E d \in IF ReadsDifficulty(Session, nx, ny)
                         THEN PlayDifficulties ELSE {"normal"},
                  el \in IF ReadsClock(Session, nx, ny)
                          THEN ElapsedSecs ELSE {0} :
                   Becomes(attemptMove(Session, dx, dy, rev, d, el))

\* The browser runs the oldest pending view-transition callback.
FinishTransition ==
    /\ pending # <<>>
    /\ OddDim(Head(pending).w) * OddDim(Head(pending).h) <= 81
    /\ \E S \in narrowCallback([Session EXCEPT !.pending = Tail(pending)], Head(pending)) :
           Becomes(S)

\* regenBtn click while no callback is pending: lines 959-960 run at once,
\* the callback is left pending.
FinishRegen ==
    \E rw \in FinishReqDims, rh \in FinishReqDims :
        /\ pending = <<>>
        /\ Becomes([Session EXCEPT !.cols = ClampDim(rw),
                                   !.rows = ClampDim(rh),
                                   !.pending = Append(pending, [kind |-> "regen", w |-> 0, h |-> 0])])

\* resetBtn click while no callback is pending.
FinishReset ==
    /\ pending = <<>>
    /\ Becomes([Session EXCEPT !.pending = Append(pending, [kind |-> "reset", w |-> 0, h |-> 0])])

NextFinish == FinishMove \/ Undo \/ FinishReset \/ FinishRegen \/ FinishTransition

SpecFinish == InitFinish /\ [][NextFinish]_vars

(***************************************************************************)
(* Properties of the score.                                                *)
(***************************************************************************)
\* undo() took an entry off the history in this step.
UndoRan == ~TransitionRan /\ Len(undoStack') = Len(undoStack) - 1

\* C13: between one generation or reset and the next the score never
\* decreases, whatever attemptMove, undo and checkCompletion do, and an undo
\* leaves the score exactly as it was.
C13_ScoreMonotone ==
    /\ [][TransitionRan \/ score' >= score]_vars
    /\ [][UndoRan => score' = score]_vars

\* The maze was completed with a finish bonus and a move was undone since.
C13_Witness ==
    /\ pending # <<>>
    /\ Head(pending).kind = "complete"
    /\ Len(undoStack) < visitedCount - 1
    /\ score >= FinishBase

\* Whether a move in direction i lands the agent on a flagged dead end that
\* is neither Start nor End (the test of lines 625-629).
LandsOnDeadEnd(S, i) ==
    LET nx == S.player.gridX + Dirs4[i][1]
        ny == S.player.gridY + Dirs4[i][2]
    IN  /\ isWalkable(S, nx, ny)
        /\ S.maze[ny][nx].deadEnd
        /\ ~(nx = S.start.x /\ ny = S.start.y)
        /\ ~(nx = S.end.x /\ ny = S.end.y)

\* C14: a move that lands on a flagged dead end awards the bonus and clears
\* the flag, the flag stays cleared when that move is undone, and making the
\* move again awards only the point of the move, not the bonus again.
C14_BonusOnce ==
    \A i \in 1 .. 4, rev \in BOOLEAN, d \in PlayDifficulties :
        LandsOnDeadEnd(Session, i) =>
            LET dx == Dirs4[i][1]
                dy == Dirs4[i][2]
                nx == player.gridX + dx
                ny == player.gridY + dy
                S1 == attemptMove(Session, dx, dy, rev, d, 0)
                S2 == undo(S1)
                S3 == attemptMove(S2, dx, dy, rev, d, 0)
            IN  /\ S1.score = score + 1 + DeadBonus(d)
                /\ ~S1.maze[ny][nx].deadEnd
                /\ ~S2.maze[ny][nx].deadEnd
                /\ S3.score = S2.score + 1

(***************************************************************************)
(* Properties of undo.                                                     *)
(***************************************************************************)
\* C15: with an empty undo history undo() changes nothing: position, grid,
\* flags, fills, score, counters and pending callbacks stay as they are.
C15_UndoOnEmptyIsNoOp ==
    undoStack = <<>> => undo(Session) = Session

\* The history is empty again after moves were made and undone.
C15_Witness ==
    /\ undoStack = <<>>
    /\ visitedCount > 1
    /\ score > 0

(***************************************************************************)
(* Properties of the grid's dimensions.                                    *)
(***************************************************************************)
Odd(n) == n % 2 = 1

\* The generating callback at the head of pending runs in this step.
GenerationRan == TransitionRan /\ Head(pending).kind # "reset"

\* The dimension generation is asked for: state.cols or state.rows as the
\* regenBtn click left it, or the grown dimension of the completion callback.
RequestedCols == IF Head(pending).kind = "regen" THEN cols ELSE Head(pending).w
RequestedRows == IF Head(pending).kind = "regen" THEN rows ELSE Head(pending).h

\* C16: the first generation and every later one (regenerate, growth after
\* completion) leave cols and rows odd: an even request n becomes n + 1, an
\* odd one is kept, and the grid has exactly cols by rows cells.
C16_OddAfterGeneration ==
    /\ Odd(cols) /\ Odd(rows)
    /\ [][GenerationRan =>
            /\ Odd(cols') /\ Odd(rows')
            /\ cols' = (IF RequestedCols % 2 = 0 THEN RequestedCols + 1 ELSE RequestedCols)
            /\ rows' = (IF RequestedRows % 2 = 0 THEN RequestedRows + 1 ELSE RequestedRows)
            /\ DOMAIN maze' = 0 .. rows' - 1
            /\ \A y \in DOMAIN maze' : DOMAIN maze'[y] = 0 .. cols' - 1]_vars

\* A maze was completed and grown, and a later request of 8 by 7 was
\* generated as 9 by 7.
C16_Witness ==
    /\ cols = 9 /\ rows = 7
    /\ DOMAIN maze = 0 .. 6 /\ DOMAIN maze[0] = 0 .. 8
    /\ highscore > 0
    /\ pending = <<>>

(***************************************************************************)
(* Properties of the cells.                                                *)
(***************************************************************************)
\* C17: in every reachable state every Wall cell has filled = false and
\* deadEnd = false.
C17_WallsPlain ==
    \A y \in DOMAIN maze : \A x \in DOMAIN maze[y] :
        maze[y][x].type = "wall" => ~maze[y][x].filled /\ ~maze[y][x].deadEnd

\* Cells were filled by moves, one move was undone, and a filled cell has a
\* Wall beside it that the local recompute visited.
C17_Witness ==
    /\ Len(undoStack) < visitedCount - 1
    /\ \E y \in DOMAIN maze : \E x \in DOMAIN maze[y] :
        /\ maze[y][x].filled
        /\ \E i \in 1 .. 4 :
            /\ HasCell(maze, x + Dirs4[i][1], y + Dirs4[i][2])
            /\ maze[y + Dirs4[i][2]][x + Dirs4[i][1]].type = "wall"

\* C18: in every reachable state Start is (1,1) and End is (cols-2, rows-2),
\* both cells are Path, and neither has its dead-end flag set.
C18_StartEndFixed ==
    /\ start = [x |-> 1, y |-> 1]
    /\ end = [x |-> cols - 2, y |-> rows - 2]
    /\ HasCell(maze, start.x, start.y)
    /\ HasCell(maze, end.x, end.y)
    /\ maze[start.y][start.x].type = "path"
    /\ maze[end.y][end.x].type = "path"
    /\ ~maze[start.y][start.x].deadEnd
    /\ ~maze[end.y][end.x].deadEnd

\* Whether (cx,cy) is (x,y), one of its four axis neighbours or one of the
\* four cells two axis-aligned steps away.
OnAxisWithin2(cx, cy, x, y) ==
    \/ cx = x /\ Abs(cy - y) <= 2
    \/ cy = y /\ Abs(cx - x) <= 2

\* A move that filled the cell it left, or an undo that unfilled one: the
\* steps in which recomputeDeadendsNear runs.
NearRan ==
    /\ ~TransitionRan
    /\ \/ /\ Len(undoStack') = Len(undoStack) + 1
          /\ undoStack'[Len(undoStack')].filled # <<>>
       \/ /\ Len(undoStack') = Len(undoStack) - 1
          /\ undoStack[Len(undoStack)].filled # <<>>

\* The entry of the undo history that names the cell filled or unfilled.
NearSnapshot ==
    IF Len(undoStack') > Len(undoStack)
    THEN undoStack'[Len(undoStack')]
    ELSE undoStack[Len(undoStack)]

\* C19: a local recompute at (x,y) changes the dead-end flag of no cell but
\* (x,y), its four axis neighbours and the four cells two axis-aligned steps
\* away, and only of cells inside the bounds; diagonal neighbours and all
\* other cells keep their flags, no cell changes kind, and no cell but the
\* one the handler fills or unfills changes filled.
C19_LocalRecomputeFrame ==
    [][NearRan =>
        LET x == NearSnapshot.filled[1]
            y == NearSnapshot.filled[2]
        IN  /\ DOMAIN maze' = DOMAIN maze
            /\ \A cy \in DOMAIN maze :
                /\ DOMAIN maze'[cy] = DOMAIN maze[cy]
                /\ \A cx \in DOMAIN maze[cy] :
                    /\ maze'[cy][cx].type = maze[cy][cx].type
                    /\ maze'[cy][cx].filled # maze[cy][cx].filled => cx = x /\ cy = y
                    /\ maze'[cy][cx].deadEnd # maze[cy][cx].deadEnd =>
                        /\ OnAxisWithin2(cx, cy, x, y)
                        /\ inBounds(cx, cy, cols, rows)]_vars

\* The last move filled the cell it left and ran the local recompute there
\* (no undo since): a cell two axis-aligned steps from the filled cell and a
\* diagonal neighbour of it are both flagged dead ends.
C19_Witness ==
    /\ undoStack # <<>>
    /\ Len(undoStack) = visitedCount - 1
    /\ undoStack[Len(undoStack)].filled # <<>>
    /\ LET x == undoStack[Len(undoStack)].filled[1]
           y == undoStack[Len(undoStack)].filled[2]
       IN  /\ maze[y][x].filled
           /\ \E i \in 6 .. 9 :
               /\ HasCell(maze, x + Near[i][1], y + Near[i][2])
               /\ maze[y + Near[i][2]][x + Near[i][1]].deadEnd
           /\ \E dx \in {-1, 1}, dy \in {-1, 1} :
               /\ HasCell(maze, x + dx, y + dy)
               /\ maze[y + dy][x + dx].deadEnd

(***************************************************************************)
(* Properties of the carving loop and the extra connections.               *)
(***************************************************************************)
\* The rooms: cells inside the border with both coordinates odd.
Rooms(c, r) ==
    {p \in Coords(c, r) : p.x % 2 = 1 /\ p.y % 2 = 1 /\ p.x < c - 1 /\ p.y < r - 1}

\* A bound on the iterations the carving loop has left: an iteration either
\* opens a room and pushes it or pops the stack.
CarveMeasure(g) ==
    2 * Cardinality({p \in Rooms(g.cols, g.rows) : g.maze[p.y][p.x].type = "wall"})
        + Len(g.stack)

\* C20: whatever the shuffles give, every iteration of the carving loop
\* brings it nearer its end and it ends with an empty stack; every room is
\* then Path and all rooms are reachable from one another; an
\* extra-connection draw only turns an interior Wall into Path and never a
\* Path into Wall.
C20_CarvingSpansRooms ==
    /\ [][gen.phase = "carve" /\ gen'.phase = "carve" =>
            CarveMeasure(gen') < CarveMeasure(gen)]_vars
    /\ [][gen.phase = "carve" /\ gen'.phase = "extra" =>
            /\ gen.stack = <<>>
            /\ \A p \in Rooms(gen.cols, gen.rows) : gen.maze[p.y][p.x].type = "path"
            /\ Rooms(gen.cols, gen.rows) \subseteq
                   ReachableFrom(PathGrid(gen.maze, gen.cols, gen.rows),
                                 gen.cols, gen.rows, [x |-> 1, y |-> 1])]_vars
    /\ [][gen.phase = "extra" /\ gen'.phase = "extra" =>
            \A p \in Coords(gen.cols, gen.rows) :
                gen'.maze[p.y][p.x].type # gen.maze[p.y][p.x].type =>
                    /\ gen.maze[p.y][p.x].type = "wall"
                    /\ gen'.maze[p.y][p.x].type = "path"
                    /\ p.x >= 1 /\ p.x <= gen.cols - 2
                    /\ p.y >= 1 /\ p.y <= gen.rows - 2]_vars

\* The carving loop has ended with an empty stack on a 9 by 7 or 7 by 9 grid
\* and an extra-connection draw has opened a Wall since.
C20_Witness ==
    /\ gen.phase = "extra"
    /\ gen.stack = <<>>
    /\ gen.i >= 1
    /\ gen.cols * gen.rows = 63
    /\ Cardinality(PathCells(gen.maze, gen.cols, gen.rows))
           > 2 * Cardinality(Rooms(gen.cols, gen.rows)) - 1

(***************************************************************************)
(* Either search service handling one request.                             *)
(***************************************************************************)
InitSearch == InitAStar \/ InitBFS

NextSearch == NextAStar \/ NextBFS

SpecSearch == InitSearch /\ [][NextSearch]_vars

(***************************************************************************)
(* Properties of the paths the services return.                            *)
(***************************************************************************)
\* Consecutive coordinates of path differ by one unit step along one axis.
UnitSteps(path) ==
    \A i \in 1 .. Len(path) - 1 :
        Abs(path[i + 1][1] - path[i][1]) + Abs(path[i + 1][2] - path[i][2]) = 1

\* Every coordinate of path after the first is a cell marked 1 in req.grid.
WalkableAfterFirst(path, req) ==
    \A i \in 2 .. Len(path) :
        /\ path[i][1] \in 0 .. req.cols - 1
        /\ path[i][2] \in 0 .. req.rows - 1
        /\ req.grid[path[i][2]][path[i][1]] = 1

\* C21: every path that is not null in a result of the A* service or of the
\* BFS service starts at the request's start, ends at the goal (A*) or at a
\* member of the target set (BFS), moves one unit step along one axis between
\* consecutive coordinates, and after its first coordinate visits only cells
\* that are walkable in the request's grid.
C21_PathWellFormed ==
    /\ \A i \in (IF AStarAsked THEN 1 .. Len(astar.out) ELSE {}) :
        LET path == astar.out[i].path
        IN  path # NoPath =>
                /\ path[1] = <<astar.req.start.x, astar.req.start.y>>
                /\ path[Len(path)] = <<astar.req.end.x, astar.req.end.y>>
                /\ UnitSteps(path)
                /\ WalkableAfterFirst(path, astar.req)
    /\ \A i \in (IF BFSAsked THEN 1 .. Len(bfs.out) ELSE {}) :
        LET path == bfs.out[i].path
        IN  path # NoPath =>
                /\ path[1] = <<bfs.req.start.x, bfs.req.start.y>>
                /\ path[Len(path)] \in bfs.req.deadEnds
                /\ UnitSteps(path)
                /\ WalkableAfterFirst(path, bfs.req)

\* A service has returned a path of three steps or more that turns a corner.
C21_Witness ==
    \E path \in (IF AStarAsked /\ astar.phase = "done" THEN {astar.out[1].path} ELSE {})
                \cup (IF BFSAsked /\ bfs.phase = "done" THEN {bfs.out[1].path} ELSE {}) :
        /\ Len(path) >= 4
        /\ \E i \in 1 .. Len(path) - 2 :
            /\ path[i + 2][1] # path[i][1]
            /\ path[i + 2][2] # path[i][2]

\* C22: on a complete request the BFS service never throws, and its one
\* result has a null path exactly when no member of the target set can be
\* reached from start over walkable cells (an empty target set included);
\* when start itself is a target the path is the single coordinate start.
C22_BFSNullIffUnreachable ==
    (BFSAsked /\ Complete(bfs.req)) =>
        /\ bfs.phase # "threw"
        /\ bfs.phase = "done" =>
            /\ Len(bfs.out) = 1
            /\ bfs.out[1].path = NoPath <=> ReachableTargets = {}
            /\ <<bfs.req.start.x, bfs.req.start.y>> \in bfs.req.deadEnds =>
                   bfs.out[1].path = << <<bfs.req.start.x, bfs.req.start.y>> >>

\* The search went beyond start and ended with a null path although a
\* walkable cell is a target.
C22_Witness ==
    /\ BFSAsked /\ Complete(bfs.req)
    /\ bfs.phase = "done"
    /\ bfs.out = <<Result(NoPath)>>
    /\ Cardinality(bfs.visited) >= 2
    /\ \E t \in bfs.req.deadEnds : bfs.req.grid[t[2]][t[1]] = 1

(***************************************************************************)
(* Gameplay interleaved with both hint buttons, both workers and the       *)
(* handlers of their responses.                                            *)
(***************************************************************************)
\* Moves made in this specification stop at this many visited cells.
MaxButtonsVisited == 3

ButtonsMove ==
    /\ visitedCount < MaxButtonsVisited
    /\ AttemptMove

\* astarWorker.onmessage (lines 778-790): the result the worker posted is
\* delivered and the button is enabled. The worker's handler has returned, so
\* the worker takes up the next message posted to it, if there is one.
AStarResponse ==
    /\ astar.phase = "done"
    /\ astar.out # <<>>
    /\ hintBtn' = Enabled(hintBtn)
    /\ IF astarInbox = <<>>
       THEN astar' = Idle /\ astarInbox' = astarInbox
       ELSE astar' = AStarPosted(Head(astarInbox)) /\ astarInbox' = Tail(astarInbox)
    /\ UNCHANGED <<pageVars, gen, bfs, deadHintBtn, bfsInbox>>

\* bfsWorker.onmessage (lines 837-857).
BFSResponse ==
    /\ bfs.phase = "done"
    /\ bfs.out # <<>>
    /\ deadHintBtn' = Enabled(deadHintBtn)
    /\ IF bfsInbox = <<>>
       THEN bfs' = Idle /\ bfsInbox' = bfsInbox
       ELSE bfs' = BFSPosted(Head(bfsInbox)) /\ bfsInbox' = Tail(bfsInbox)
    /\ UNCHANGED <<pageVars, gen, astar, hintBtn, astarInbox>>

\* Values of the width and height inputs tried in this specification: with
\* them state.cols and state.rows exceed the grid until the callback runs.
ButtonsReqDims == {8}

\* regenBtn click while no callback is pending (lines 959-960 run at once).
\* The callback stays pending for the rest of the behaviour.
ButtonsRegen ==
    \E rw \in ButtonsReqDims, rh \in ButtonsReqDims :
        /\ pending = <<>>
        /\ Becomes([Session EXCEPT !.cols = ClampDim(rw),
                                   !.rows = ClampDim(rh),
                                   !.pending = Append(pending, [kind |-> "regen", w |-> 0, h |-> 0])])

NextButtons ==
    \/ ButtonsMove \/ Undo \/ ButtonsRegen
    \/ HintClick \/ DeadHintClick
    \/ WorkerStep
    \/ AStarResponse \/ BFSResponse

SpecButtons == InitHint /\ [][NextButtons]_vars

\* Requests of a service that were sent and whose response the page has not
\* received.
OutstandingAStar ==
    Len(astarInbox) + (IF astar.phase \in {"posted", "loop", "done", "threw"} THEN 1 ELSE 0)

OutstandingBFS ==
    Len(bfsInbox) + (IF bfs.phase \in {"posted", "loop", "done", "threw"} THEN 1 ELSE 0)

\* C23: for each service at most one request is outstanding, its button is
\* disabled for as long as one is, and the step that receives the response
\* leaves the button enabled, however clicks, moves, undos, worker steps and
\* responses interleave.
C23_OneOutstandingRequest ==
    /\ [](OutstandingAStar <= 1 /\ OutstandingBFS <= 1)
    /\ [](OutstandingAStar >= 1 => hintBtn.disabled)
    /\ [](OutstandingBFS >= 1 => deadHintBtn.disabled)
    /\ [][(astar.phase = "done" /\ astar' # astar) => ~hintBtn'.disabled]_vars
    /\ [][(bfs.phase = "done" /\ bfs' # bfs) => ~deadHintBtn'.disabled]_vars

\* Both services have a request outstanding, each button is disabled, the
\* BFS result is on its way to the page and the agent has moved since it was
\* asked for.
C23_Witness ==
    /\ OutstandingAStar = 1 /\ hintBtn.disabled
    /\ OutstandingBFS = 1 /\ deadHintBtn.disabled
    /\ astar.phase = "loop"
    /\ bfs.phase = "done"
    /\ bfs.req.start # [x |-> player.gridX, y |-> player.gridY]

(***************************************************************************)
(* Properties of completion.                                               *)
(***************************************************************************)
\* Whether a move in direction i puts the agent on End.
LandsOnEnd(S, i) ==
    LET nx == S.player.gridX + Dirs4[i][1]
        ny == S.player.gridY + Dirs4[i][2]
    IN  /\ isWalkable(S, nx, ny)
        /\ nx = S.end.x
        /\ ny = S.end.y

\* C24: a move that puts the agent on End adds, to the point of the move,
\* max(0, 100 - elapsed seconds), which is never negative, and leaves the
\* high score at the larger of its previous value and the resulting score;
\* no operation ever lowers the high score.
C24_FinishBonus ==
    /\ [](\A i \in 1 .. 4, rev \in BOOLEAN, d \in PlayDifficulties, t \in ElapsedSecs :
            LandsOnEnd(Session, i) =>
                LET S1 == attemptMove(Session, Dirs4[i][1], Dirs4[i][2], rev, d, t)
                    finishBonus == Max(0, FinishBase - t)
                IN  /\ finishBonus >= 0
                    /\ S1.score = score + 1 + finishBonus
                    /\ S1.highscore = Max(highscore, S1.score))
    /\ [][highscore' >= highscore]_vars

(***************************************************************************)
(* Properties of reset.                                                    *)
(***************************************************************************)
\* Play, regeneration and reset without the search services. Moves stop at
\* this many visited cells.
MaxResetVisited == 7

\* A key, pointer or hold-interval event calling attemptMove, reverse mode
\* on or off.
ResetMove ==
    \E i \in 1 .. 4, rev \in BOOLEAN :
        LET dx == Dirs4[i][1]
            dy == Dirs4[i][2]
            nx == player.gridX + dx
            ny == player.gridY + dy
        IN  /\ isWalkable(Session, nx, ny) => visitedCount < MaxResetVisited
            /\ \E d \in IF ReadsDifficulty(Session, nx, ny)
                         THEN PlayDifficulties ELSE {"normal"},
                  el \in IF ReadsClock(Session, nx, ny)
                          THEN ElapsedSecs ELSE {0} :
                   Becomes(attemptMove(Session, dx, dy, rev, d, el))

NextReset == ResetMove \/ Undo \/ HintRegen \/ HintReset \/ HintTransition

SpecReset == InitHint /\ [][NextReset]_vars

\* What the claims about reset compare: grid, Start, End, agent, history,
\* visit count and score.
PlayView(S) ==
    <<S.cols, S.rows, S.maze, S.start, S.end, S.player, S.undoStack, S.visitedCount,
      S.score>>

\* The kind of every cell.
Kinds(m) == [y \in DOMAIN m |-> [x \in DOMAIN m[y] |-> m[y][x].type]]

\* A step that ran the callback of a reset click.
ResetRan == TransitionRan /\ Head(pending).kind = "reset"

\* C25: the state generation leaves is what reset gives back: reset changes
\* nothing right after generation, no move or undo (reverse on or off)
\* changes what a reset would yield, and the reset itself leaves kinds, Start
\* and End as they were, no cell filled, the agent at Start, the history
\* empty and the score 0.
C25_ResetRestoresGenerated ==
    /\ [][GenerationRan => PlayView(resetCurrentMaze(Session')) = PlayView(Session')]_vars
    /\ [][~TransitionRan =>
            /\ start' = start /\ end' = end /\ cols' = cols /\ rows' = rows
            /\ maze' # maze =>
                   resetCurrentMaze(Session').maze = resetCurrentMaze(Session).maze]_vars
    /\ [][ResetRan =>
            /\ PlayView(Session') = PlayView(resetCurrentMaze(Session))
            /\ Kinds(maze') = Kinds(maze) /\ start' = start /\ end' = end
            /\ FilledSet(maze', cols', rows') = {}
            /\ AgentAtStart'
            /\ undoStack' = <<>>
            /\ score' = 0]_vars

\* The callback of a reset click is about to run on a maze in which moves
\* were made and undone, a cell is filled and a dead-end flag differs from
\* the value the reset gives it.
C25_Witness ==
    /\ pending # <<>>
    /\ Head(pending).kind = "reset"
    /\ FilledSet(maze, cols, rows) # {}
    /\ undoStack # <<>>
    /\ Len(undoStack) < visitedCount - 1
    /\ score > 0
    /\ DeadEndSet(maze, cols, rows)
           # DeadEndSet(resetCurrentMaze(Session).maze, cols, rows)

(***************************************************************************)
(* Play with reverse mode off on every maze generation can leave, with     *)
(* resets; the size inputs are left alone.                                 *)
(***************************************************************************)
\* Moves made in this specification stop at this many visited cells.
MaxFillVisited == 8

\* A key, pointer or hold-interval event calling attemptMove with reverse
\* mode off.
FillMove ==
    \E i \in 1 .. 4, rev \in FinishReverse :
        LET dx == Dirs4[i][1]
            dy == Dirs4[i][2]
            nx == player.gridX + dx
            ny == player.gridY + dy
        IN  /\ isWalkable(Session, nx, ny) => visitedCount < MaxFillVisited
            /\ \E d \in IF ReadsDifficulty(Session, nx, ny)
                         THEN PlayDifficulties ELSE {"normal"},
                  el \in IF ReadsClock(Session, nx, ny)
                          THEN ElapsedSecs ELSE {0} :
                   Becomes(attemptMove(Session, dx, dy, rev, d, el))

NextFill == FillMove \/ Undo \/ FinishReset \/ ViewTransition

SpecFill == Init /\ [][NextFill]_vars

\* C26: with reverse mode off for every move, in every state that moves and
\* undos reach from a generated or reset maze the flagged cells are exactly
\* the cells that are Path, not filled, with exactly one Path-and-not-filled
\* 4-neighbour, and neither Start nor End.
C26_FlagsFollowFills ==
    DeadEndSet(maze, cols, rows)
        = {p \in Cells(Session) : IsDeadEndByDefinition(Session, p[1], p[2])}

\* Moves filled cells, one was undone, and the cell the agent stands on has
\* become a dead end because the cell behind it is filled.
C26_Witness ==
    /\ FilledSet(maze, cols, rows) # {}
    /\ Len(undoStack) < visitedCount - 1
    /\ undoStack # <<>>
    /\ maze[player.gridY][player.gridX].deadEnd
    /\ ~resetCurrentMaze(Session).maze[player.gridY][player.gridX].deadEnd
====
